---- MODULE Spec2Model ----
(***************************************************************************)
(* WebBlockStore (src/private_forest/private_forest_tests2.rs): a block    *)
(* store backed by the process-wide MEMORY_STORE map and, on a miss, by a  *)
(* blocking HTTP GET against an IPFS gateway.                              *)
(*                                                                         *)
(* Callers are the threads/tasks of the process that invoke get_block,     *)
(* put_block and clear_memory_store.  Every statement that touches the     *)
(* shared map or the network is one step of the caller executing it.       *)
(***************************************************************************)
EXTENDS Integers, Sequences, FiniteSets, TLC

\* ------------------------------------------------------------------ bounds
\* Number of calls (get_block, put_block, clear) started in one behaviour.
MaxCalls == 3

\* ------------------------------------------------------------- input data
Callers == {"t1", "t2"}

\* WebBlockStore::new(gateway_url, codec)
WebBlockStore(gateway_url, codec) ==
  [gateway_url |-> gateway_url, codec |-> codec]

\* let store = WebBlockStore::new(..): each caller owns one instance, as each
\* test does, and the two are configured differently.
store ==
  [t \in Callers |->
     IF t = "t1"
       THEN WebBlockStore("https://ipfs.cloud.fx.land/gateway", 113)
       ELSE WebBlockStore("https://example.org/gw", 85)]

\* Binary CIDs handed to get_block / put_block (bytes below 128, so every
\* varint of the encoding is one byte).
\*   CidA, CidB  well-formed CIDv1: version, codec, multihash code, digest
\*               length, digest
\*   CidEmpty    no bytes at all
\*   CidBadVer   version 2 does not exist
\*   CidShort    the multihash announces 3 digest bytes and carries 1
CidA == <<1, 113, 18, 2, 10, 11>>
CidB == <<1, 85, 18, 2, 20, 21>>
CidEmpty == <<>>
CidBadVer == <<2, 113, 18, 2, 10, 11>>
CidShort == <<1, 113, 18, 3, 10>>
CidInputs == {CidA, CidB, CidEmpty, CidBadVer, CidShort}

\* Block payloads a caller writes or a gateway serves with a 2xx status.
Blocks == {<<1, 2, 3>>, <<9>>}
\* Body a gateway serves with a non-2xx status (an error page).
ErrorBody == <<52, 48, 52>>
HttpStatuses == {200, 404}

\* ----------------------------------------------------- Cid parse / format
\* Cid::try_from(&[u8]): reads version and codec; the pair (0x12, 0x20) is a
\* CIDv0 (a bare sha2-256 multihash of 32 bytes); otherwise the version must
\* be 1 and a multihash (code, length, digest) follows.  Bytes after the
\* multihash are not read, and a digest is at most 64 bytes (Cid<64>).  The
\* result is a set: empty on a parse error.
Take(s, n) == [i \in 1..n |-> s[i]]
Drop(s, n) == [i \in 1..(Len(s) - n) |-> s[i + n]]

CidTryFrom(bytes) ==
  IF Len(bytes) < 2 THEN {}
  ELSE IF bytes[1] = 18 /\ bytes[2] = 32
    THEN IF Len(bytes) >= 34
           THEN {[version |-> 0, codec |-> 112, mh |-> Take(bytes, 34)]}
           ELSE {}
  ELSE IF bytes[1] # 1 THEN {}
  ELSE IF Len(bytes) < 4 THEN {}
  ELSE IF bytes[4] > 64 \/ Len(bytes) < 4 + bytes[4] THEN {}
  ELSE {[version |-> 1, codec |-> bytes[2],
         mh |-> Take(Drop(bytes, 2), 2 + bytes[4])]}

\* Cid::to_bytes
CidToBytes(c) ==
  IF c.version = 0 THEN c.mh ELSE <<c.version, c.codec>> \o c.mh

Base32Lower ==
  << "a", "b", "c", "d", "e", "f", "g", "h", "i", "j", "k", "l", "m", "n",
     "o", "p", "q", "r", "s", "t", "u", "v", "w", "x", "y", "z", "2", "3",
     "4", "5", "6", "7" >>

Base58Btc ==
  << "1", "2", "3", "4", "5", "6", "7", "8", "9", "A", "B", "C", "D", "E",
     "F", "G", "H", "J", "K", "L", "M", "N", "P", "Q", "R", "S", "T", "U",
     "V", "W", "X", "Y", "Z", "a", "b", "c", "d", "e", "f", "g", "h", "i",
     "j", "k", "m", "n", "o", "p", "q", "r", "s", "t", "u", "v", "w", "x",
     "y", "z" >>

Pow2(n) == IF n = 0 THEN 1 ELSE IF n = 1 THEN 2 ELSE IF n = 2 THEN 4
           ELSE IF n = 3 THEN 8 ELSE IF n = 4 THEN 16 ELSE IF n = 5 THEN 32
           ELSE IF n = 6 THEN 64 ELSE 128

\* bit i (1 = most significant) of the byte string s
BitAt(s, i) ==
  IF i > 8 * Len(s) THEN 0
  ELSE (s[((i - 1) \div 8) + 1] \div Pow2(7 - ((i - 1) % 8))) % 2

\* The string made of the characters of the sequence chars.
RECURSIVE Join(_)
Join(chars) == IF chars = <<>> THEN "" ELSE Head(chars) \o Join(Tail(chars))

\* RFC 4648 base32, lower case, no padding: 5 bits per character.
Base32Encode(s) ==
  Join([j \in 1..((8 * Len(s) + 4) \div 5) |->
     Base32Lower[1 + 16 * BitAt(s, 5 * j - 4) + 8 * BitAt(s, 5 * j - 3)
                   + 4 * BitAt(s, 5 * j - 2) + 2 * BitAt(s, 5 * j - 1)
                   + BitAt(s, 5 * j)]])

\* Long division of the big-endian number s by 58, digit by digit, with q
\* the quotient so far and r the remainder so far: <<quotient, remainder>>.
RECURSIVE DivMod58(_, _, _)
DivMod58(s, q, r) ==
  IF s = <<>> THEN <<q, r>>
  ELSE LET n == r * 256 + Head(s)
       IN DivMod58(Tail(s), Append(q, n \div 58), n % 58)

RECURSIVE StripZeros(_)
StripZeros(s) ==
  IF s # <<>> /\ Head(s) = 0 THEN StripZeros(Tail(s)) ELSE s

\* The base58 digits of the number s, most significant first.
RECURSIVE Base58Digits(_)
Base58Digits(s) ==
  IF StripZeros(s) = <<>> THEN <<>>
  ELSE LET d == DivMod58(StripZeros(s), <<>>, 0)
       IN Append(Base58Digits(d[1]), Base58Btc[1 + d[2]])

RECURSIVE LeadingOnes(_)
LeadingOnes(s) ==
  IF s # <<>> /\ Head(s) = 0 THEN <<"1">> \o LeadingOnes(Tail(s)) ELSE <<>>

\* base58btc: a "1" for each leading zero byte, then the digits of the number.
Base58Encode(s) == Join(LeadingOnes(s) \o Base58Digits(s))

\* Cid::to_string: CIDv0 is base58btc without a prefix, CIDv1 is multibase
\* base32 with the prefix "b".
CidToString(c) ==
  IF c.version = 0 THEN Base58Encode(CidToBytes(c))
  ELSE "b" \o Base32Encode(CidToBytes(c))

\* WebBlockStore::cid_to_string = Cid::try_from(cid).unwrap().to_string().
\* The result is a set: the string, or empty when unwrap() panics.
cid_to_string(cid) == {CidToString(c) : c \in CidTryFrom(cid)}

\* ------------------------------------------------------------------ state
VARIABLES
  MEMORY_STORE,  \* the HashMap<String, Vec<u8>>: a function on the keys present
  lock,          \* holders of the Mutex around it: {} or one caller
  poisoned,      \* the Mutex is poisoned: a panic dropped its guard
  netcalls,      \* HTTP requests sent so far
  ncalls,        \* calls started so far
  pc,            \* each caller's position
  op,            \* the operation of the caller's current or last call
  cid,           \* the cid argument
  bytes,         \* the bytes argument of put_block
  cid_string,    \* the local cid_string, "" before it is computed
  url,           \* the local url, "" before it is built
  status,        \* HTTP status of the response received, 0 before
  data,          \* the local data (body of the response)
  result,        \* what the call returned
  \* bookkeeping of what happened, read by the properties only
  key,           \* the canonical string of the cid of the call under way, as
                 \* the set cid_to_string gave at its entry; {} outside
  lookup,        \* "-", "hit" or "miss": outcome of the call's cache lookup
  fetches,       \* HTTP requests sent by the call
  prior,         \* bytes a completed get_block had fetched into the map
                 \* for the key when the call started, {} if none
  lastWrite,     \* key -> the latest insert of the key since the last clear
  cleared        \* keys emptied by the last clear and not written since

locals == <<cid, bytes, cid_string, url, status, data>>
histVars == <<lookup, fetches, prior, lastWrite, cleared>>
vars == <<MEMORY_STORE, lock, poisoned, netcalls, ncalls, pc, op, locals,
          result, key, histVars>>

EmptyMap == [k \in {} |-> <<>>]
NoResult == [tag |-> "-", val |-> <<>>, err |-> "-"]
Ok(v) == [tag |-> "Ok", val |-> v, err |-> "-"]
Err(cause) == [tag |-> "Err", val |-> <<>>, err |-> cause]
\* anyhow errors that come out of the reqwest calls of get_block
FetchCauses == {"build", "transport", "timeout", "body"}
FetchFailed(r) == r.tag = "Err" /\ r.err \in FetchCauses

GetPcs == {"g_lock", "g_look", "g_request", "g_wait", "g_ilock",
           "g_insert"}
PutPcs == {"p_lock", "p_insert"}
ClearPcs == {"c_lock", "c_clear"}
\* not inside a call: never called, returned, or unwound by a panic
Outside == {"idle", "done", "panicked"}

\* HashMap::get(&key).cloned()
MapGet(m, k) == IF k \in DOMAIN m THEN {m[k]} ELSE {}
\* Mutant of MapInsert: entry(key).or_insert(value), which keeps an entry
\* that is already there.
MapInsertIfAbsent(m, k, v) ==
  [x \in DOMAIN m \cup {k} |-> IF x \in DOMAIN m THEN m[x] ELSE v]

\* Mutant of MapInsert: a cache of one entry, where an insert evicts the
\* entries of the other keys.
MapInsertEvicting(m, k, v) == [x \in {k} |-> v]

\* HashMap::insert(key, value)
MapInsert(m, k, v) == [x \in DOMAIN m \cup {k} |-> IF x = k THEN v ELSE m[x]]
\* Mutant of MapClear: the clear works on a copy, the map keeps its entries.
MapClearCopy(m) == m

\* HashMap::clear()
MapClear(m) == EmptyMap

\* format!("{}/{}?raw", self.gateway_url, cid_string)
RequestUrl(s, k) == s.gateway_url \o "/" \o k \o "?raw"

Init ==
  /\ MEMORY_STORE = EmptyMap
  /\ lock = {}
  /\ poisoned = FALSE
  /\ netcalls = 0
  /\ ncalls = 0
  /\ pc = [t \in Callers |-> "idle"]
  /\ op = [t \in Callers |-> "-"]
  /\ cid = [t \in Callers |-> <<>>]
  /\ bytes = [t \in Callers |-> <<>>]
  /\ cid_string = [t \in Callers |-> ""]
  /\ url = [t \in Callers |-> ""]
  /\ status = [t \in Callers |-> 0]
  /\ data = [t \in Callers |-> <<>>]
  /\ result = [t \in Callers |-> NoResult]
  /\ key = [t \in Callers |-> {}]
  /\ lookup = [t \in Callers |-> "-"]
  /\ fetches = [t \in Callers |-> 0]
  /\ prior = [t \in Callers |-> {}]
  /\ lastWrite = EmptyMap
  /\ cleared = {}

\* ------------------------------------------------------- call and return
\* A caller that is not inside a call starts one.
Begin(t, o) ==
  /\ pc[t] \in Outside
  /\ ncalls < MaxCalls
  /\ ncalls' = ncalls + 1
  /\ op' = [op EXCEPT ![t] = o]
  /\ result' = [result EXCEPT ![t] = NoResult]
  /\ lookup' = [lookup EXCEPT ![t] = "-"]
  /\ fetches' = [fetches EXCEPT ![t] = 0]
  /\ UNCHANGED <<MEMORY_STORE, netcalls, url, status, data, lastWrite,
                 cleared>>

\* The call has its arguments (c, b) and its cid_string k.
Enter(t, c, b, k, to) ==
  /\ pc' = [pc EXCEPT ![t] = to]
  /\ cid' = [cid EXCEPT ![t] = c]
  /\ bytes' = [bytes EXCEPT ![t] = b]
  /\ cid_string' = [cid_string EXCEPT ![t] = k]
  /\ UNCHANGED <<lock, poisoned>>

\* Mutant of Panic: the call takes the guard first and computes cid_string
\* under it (MEMORY_STORE.lock().unwrap().insert(Self::cid_to_string(&cid),
\* bytes)): the panic drops the guard and poisons the Mutex.
PanicUnderGuard(t) ==
  /\ pc' = [pc EXCEPT ![t] = "panicked"]
  /\ lock = {}
  /\ UNCHANGED lock
  /\ poisoned' = TRUE
  /\ UNCHANGED <<cid, bytes, cid_string>>

\* The call unwinds before it has any local: the caller's task ends in the
\* panic, nothing is returned.  Unwinding drops the guard the caller holds,
\* if any, and a guard dropped by a panic poisons the Mutex.
Panic(t) ==
  /\ pc' = [pc EXCEPT ![t] = "panicked"]
  /\ lock' = lock \ {t}
  /\ poisoned' = (poisoned \/ t \in lock)
  /\ UNCHANGED <<cid, bytes, cid_string>>

\* Mutant of Canon: the key is made of the instance's gateway and the CID,
\* so that each instance has its own entries.
CanonPerStore(t, c, b, parsed, to) ==
  IF parsed = {}
    THEN Panic(t)
    ELSE Enter(t, c, b,
               store[t].gateway_url \o "|" \o (CHOOSE k \in parsed : TRUE), to)

\* let cid_string = Self::cid_to_string(&cid);  -- the first statement of
\* get_block and of put_block, local to the call: it is part of the step
\* that enters the call.  parsed is cid_to_string(c): unwrap() panics on a
\* CID that does not parse.
Canon(t, c, b, parsed, to) ==
  IF parsed = {}
    THEN Panic(t)
    ELSE Enter(t, c, b, CHOOSE k \in parsed : TRUE, to)

\* The call of t ends (it returns r, or unwinds): its arguments and locals
\* are dropped.
Leave(t, to, r) ==
  /\ pc' = [pc EXCEPT ![t] = to]
  /\ result' = [result EXCEPT ![t] = r]
  /\ cid' = [cid EXCEPT ![t] = <<>>]
  /\ bytes' = [bytes EXCEPT ![t] = <<>>]
  /\ cid_string' = [cid_string EXCEPT ![t] = ""]
  /\ url' = [url EXCEPT ![t] = ""]
  /\ status' = [status EXCEPT ![t] = 0]
  /\ data' = [data EXCEPT ![t] = <<>>]
  /\ key' = [key EXCEPT ![t] = {}]

\* The call of t goes on at position `to`.
Goto(t, to) ==
  /\ pc' = [pc EXCEPT ![t] = to]
  /\ UNCHANGED <<result, key>>

\* Bookkeeping of the insert of v by caller t, under the canonical string
\* of the call's cid (what cid_to_string(cid[t]) gave at the call's entry).
NoteWrite(t, v, how) ==
  LET k == CHOOSE x \in key[t] : TRUE
  IN /\ lastWrite' = [x \in DOMAIN lastWrite \cup {k} |->
                       IF x = k
                         THEN [by |-> how, store |-> store[t], val |-> v]
                         ELSE lastWrite[x]]
     /\ cleared' = cleared \ {k}

\* Mutant of Acquire: the map is reached without mutual exclusion (a guard
\* that does not wait for the one that holds it).
AcquireNoWait(t, from, to) ==
  /\ pc[t] = from
  /\ lock' = lock \cup {t}
  /\ Goto(t, to)
  /\ UNCHANGED <<MEMORY_STORE, poisoned, netcalls, ncalls, op, locals,
                 histVars>>

\* MEMORY_STORE.lock().unwrap(): blocks while another caller holds the guard;
\* lock() of a poisoned Mutex gives Err(PoisonError) and unwrap() panics.
Acquire(t, from, to) ==
  /\ pc[t] = from
  /\ lock = {}
  /\ IF poisoned
       THEN /\ Leave(t, "panicked", NoResult)
            /\ UNCHANGED lock
       ELSE /\ lock' = {t}
            /\ Goto(t, to)
            /\ UNCHANGED locals
  /\ UNCHANGED <<MEMORY_STORE, poisoned, netcalls, ncalls, op, histVars>>

\* ------------------------------------------------------------- get_block
\* A caller invokes store.get_block(cid).
CallGet(t) ==
  \E c \in CidInputs :
    LET parsed == cid_to_string(c)
    IN /\ Begin(t, "get")
       /\ Canon(t, c, <<>>, parsed, "g_lock")
       /\ key' = [key EXCEPT ![t] = parsed]
       /\ prior' = [prior EXCEPT ![t] =
            {lastWrite[k].val :
               k \in {x \in parsed \cap DOMAIN lastWrite :
                        lastWrite[x].by = "fetch"}}]

GetLock(t) == Acquire(t, "g_lock", "g_look")

\* Mutant of GetLookup: the lookup takes the entry out of the map
\* (HashMap::remove in the place of get).
GetLookupTakes(t) ==
  /\ pc[t] = "g_look"
  /\ lock = {t}
  /\ lock' = {}
  /\ UNCHANGED poisoned
  /\ IF MapGet(MEMORY_STORE, cid_string[t]) # {}
       THEN /\ Leave(t, "done",
                     Ok(CHOOSE d \in MapGet(MEMORY_STORE, cid_string[t]) : TRUE))
            /\ lookup' = [lookup EXCEPT ![t] = "hit"]
            /\ MEMORY_STORE' = [x \in DOMAIN MEMORY_STORE \ {cid_string[t]} |->
                                 MEMORY_STORE[x]]
       ELSE /\ Goto(t, "g_request")
            /\ lookup' = [lookup EXCEPT ![t] = "miss"]
            /\ UNCHANGED <<MEMORY_STORE, locals>>
  /\ UNCHANGED <<netcalls, ncalls, op, fetches, prior, lastWrite, cleared>>

\* Mutant of GetLookup: the guard is bound to a variable of the function
\* body (let store = MEMORY_STORE.lock().unwrap();), so that a call that
\* misses keeps it while it fetches.
GetLookupHoldsGuard(t) ==
  /\ pc[t] = "g_look"
  /\ lock = {t}
  /\ UNCHANGED poisoned
  /\ IF MapGet(MEMORY_STORE, cid_string[t]) # {}
       THEN /\ Leave(t, "done",
                     Ok(CHOOSE d \in MapGet(MEMORY_STORE, cid_string[t]) : TRUE))
            /\ lookup' = [lookup EXCEPT ![t] = "hit"]
            /\ lock' = {}
       ELSE /\ Goto(t, "g_request")
            /\ lookup' = [lookup EXCEPT ![t] = "miss"]
            /\ UNCHANGED <<lock, locals>>
  /\ UNCHANGED <<MEMORY_STORE, netcalls, ncalls, op, fetches, prior, lastWrite,
                 cleared>>

\* if let Some(data) = ... .get(&cid_string) { return Ok(data.clone()); }
\* The guard is dropped when the if-let ends, on the hit and on the miss.
GetLookup(t) ==
  /\ pc[t] = "g_look"
  /\ lock = {t}
  /\ lock' = {}
  /\ UNCHANGED poisoned
  /\ IF MapGet(MEMORY_STORE, cid_string[t]) # {}
       THEN /\ Leave(t, "done",
                     Ok(CHOOSE d \in MapGet(MEMORY_STORE, cid_string[t]) : TRUE))
            /\ lookup' = [lookup EXCEPT ![t] = "hit"]
       ELSE /\ Goto(t, "g_request")
            /\ lookup' = [lookup EXCEPT ![t] = "miss"]
            /\ UNCHANGED locals
  /\ UNCHANGED <<MEMORY_STORE, netcalls, ncalls, op, fetches, prior, lastWrite,
                 cleared>>

\* let url = format!(..); Client::builder().timeout(60s).build()?;
\* client.get(&url).header(..).header(..).send()  -- the request leaves.
\* build() can fail (no TLS backend), and then nothing is sent.
GetRequest(t) ==
  /\ pc[t] = "g_request"
  /\ \/ /\ Leave(t, "done", Err("build"))
        /\ UNCHANGED <<netcalls, fetches>>
     \/ /\ Goto(t, "g_wait")
        /\ url' = [url EXCEPT ![t] = RequestUrl(store[t], cid_string[t])]
        /\ netcalls' = netcalls + 1
        /\ fetches' = [fetches EXCEPT ![t] = fetches[t] + 1]
        /\ UNCHANGED <<cid, bytes, cid_string, status, data>>
  /\ UNCHANGED <<MEMORY_STORE, lock, poisoned, ncalls, op, lookup, prior,
                 lastWrite, cleared>>

\* What the gateway and the network do with one request:
\*   send()? fails: no response (transport error, or nothing within 60 s);
\*   a response with some status arrives and bytes()? fails reading the body;
\*   a response with some status arrives and its body is read.
\* send() does not look at the status: no error_for_status() is called.
Responses ==
  {[kind |-> "error", cause |-> c, status |-> 0, body |-> <<>>] :
     c \in {"transport", "timeout"}}
  \cup {[kind |-> "error", cause |-> "body", status |-> s, body |-> <<>>] :
          s \in HttpStatuses}
  \cup {[kind |-> "body", cause |-> "-", status |-> 200, body |-> b] :
          b \in Blocks}
  \cup {[kind |-> "body", cause |-> "-", status |-> 404, body |-> ErrorBody]}

\* Mutant of GetResponse: a failed fetch leaves an empty block in the map.
GetResponseCachesFailure(t) ==
  /\ pc[t] = "g_wait"
  /\ \E r \in Responses :
       IF r.kind = "error"
         THEN /\ Leave(t, "done", Err(r.cause))
              /\ MEMORY_STORE' = MapInsert(MEMORY_STORE, cid_string[t], <<>>)
         ELSE /\ Goto(t, "g_ilock")
              /\ status' = [status EXCEPT ![t] = r.status]
              /\ data' = [data EXCEPT ![t] = r.body]
              /\ UNCHANGED <<MEMORY_STORE, cid, bytes, cid_string, url>>
  /\ UNCHANGED <<lock, poisoned, netcalls, ncalls, op, histVars>>

\* Mutant of GetResponse: a request that failed is sent once more before the
\* call gives up.
GetResponseRetries(t) ==
  /\ pc[t] = "g_wait"
  /\ \E r \in Responses :
       IF r.kind = "error"
         THEN IF r.cause # "body" /\ fetches[t] < 2
                THEN /\ Goto(t, "g_request")
                     /\ UNCHANGED locals
                ELSE Leave(t, "done", Err(r.cause))
         ELSE /\ Goto(t, "g_ilock")
              /\ status' = [status EXCEPT ![t] = r.status]
              /\ data' = [data EXCEPT ![t] = r.body]
              /\ UNCHANGED <<cid, bytes, cid_string, url>>
  /\ UNCHANGED <<MEMORY_STORE, lock, poisoned, netcalls, ncalls, op, histVars>>

\* .send()?.bytes()?; let data = response.to_vec();
GetResponse(t) ==
  /\ pc[t] = "g_wait"
  /\ \E r \in Responses :
       IF r.kind = "error"
         THEN /\ Leave(t, "done", Err(r.cause))
         ELSE /\ Goto(t, "g_ilock")
              /\ status' = [status EXCEPT ![t] = r.status]
              /\ data' = [data EXCEPT ![t] = r.body]
              /\ UNCHANGED <<cid, bytes, cid_string, url>>
  /\ UNCHANGED <<MEMORY_STORE, lock, poisoned, netcalls, ncalls, op, histVars>>

GetInsertLock(t) == Acquire(t, "g_ilock", "g_insert")

\* Mutant of GetInsert: the fetched block is returned and not stored.
GetInsertForgets(t) ==
  /\ pc[t] = "g_insert"
  /\ lock = {t}
  /\ lock' = {}
  /\ UNCHANGED poisoned
  /\ Leave(t, "done", Ok(data[t]))
  /\ UNCHANGED <<MEMORY_STORE, netcalls, ncalls, op, histVars>>

\* MEMORY_STORE.lock().unwrap().insert(cid_string, data.clone()); Ok(data)
GetInsert(t) ==
  /\ pc[t] = "g_insert"
  /\ lock = {t}
  /\ lock' = {}
  /\ UNCHANGED poisoned
  /\ MEMORY_STORE' = MapInsert(MEMORY_STORE, cid_string[t], data[t])
  /\ Leave(t, "done", Ok(data[t]))
  /\ NoteWrite(t, data[t], "fetch")
  /\ UNCHANGED <<netcalls, ncalls, op, lookup, fetches, prior>>

\* ------------------------------------------------------------- put_block
\* A caller invokes store.put_block(cid, bytes).
CallPut(t) ==
  \E c \in CidInputs :
    LET parsed == cid_to_string(c)
    IN \E b \in Blocks :
         /\ Begin(t, "put")
         /\ Canon(t, c, b, parsed, "p_lock")
         /\ key' = [key EXCEPT ![t] = parsed]
         /\ prior' = [prior EXCEPT ![t] = {}]

PutLock(t) == Acquire(t, "p_lock", "p_insert")

\* Mutant of PutInsert: a write-through put, which also sends the block to
\* the gateway.
PutInsertWriteThrough(t) ==
  /\ pc[t] = "p_insert"
  /\ lock = {t}
  /\ lock' = {}
  /\ UNCHANGED poisoned
  /\ MEMORY_STORE' = MapInsert(MEMORY_STORE, cid_string[t], bytes[t])
  /\ netcalls' = netcalls + 1
  /\ Leave(t, "done", Ok(<<>>))
  /\ NoteWrite(t, bytes[t], "put")
  /\ UNCHANGED <<ncalls, op, lookup, fetches, prior>>

\* Mutant of PutInsert: the guard is leaked (std::mem::forget) and the Mutex
\* stays locked after the call has returned.
PutInsertLeaksGuard(t) ==
  /\ pc[t] = "p_insert"
  /\ lock = {t}
  /\ UNCHANGED <<lock, poisoned>>
  /\ MEMORY_STORE' = MapInsert(MEMORY_STORE, cid_string[t], bytes[t])
  /\ Leave(t, "done", Ok(<<>>))
  /\ NoteWrite(t, bytes[t], "put")
  /\ UNCHANGED <<netcalls, ncalls, op, lookup, fetches, prior>>

\* MEMORY_STORE.lock().unwrap().insert(cid_string, bytes); Ok(())
PutInsert(t) ==
  /\ pc[t] = "p_insert"
  /\ lock = {t}
  /\ lock' = {}
  /\ UNCHANGED poisoned
  /\ MEMORY_STORE' = MapInsert(MEMORY_STORE, cid_string[t], bytes[t])
  /\ Leave(t, "done", Ok(<<>>))
  /\ NoteWrite(t, bytes[t], "put")
  /\ UNCHANGED <<netcalls, ncalls, op, lookup, fetches, prior>>

\* ---------------------------------------------------- clear_memory_store
\* A caller (a test) invokes clear_memory_store().
CallClear(t) ==
  /\ Begin(t, "clear")
  /\ Enter(t, <<>>, <<>>, "", "c_lock")
  /\ key' = [key EXCEPT ![t] = {}]
  /\ prior' = [prior EXCEPT ![t] = {}]

ClearLock(t) == Acquire(t, "c_lock", "c_clear")

\* MEMORY_STORE.lock().unwrap().clear();
ClearStore(t) ==
  /\ pc[t] = "c_clear"
  /\ lock = {t}
  /\ lock' = {}
  /\ UNCHANGED poisoned
  /\ MEMORY_STORE' = MapClear(MEMORY_STORE)
  /\ Leave(t, "done", Ok(<<>>))
  /\ cleared' = DOMAIN MEMORY_STORE
  /\ lastWrite' = EmptyMap
  /\ prior' = [u \in Callers |-> {}]
  /\ UNCHANGED <<netcalls, ncalls, op, lookup, fetches>>

Next ==
  \E t \in Callers :
    \/ CallGet(t)
    \/ GetLock(t)
    \/ GetLookup(t)
    \/ GetRequest(t)
    \/ GetResponse(t)
    \/ GetInsertLock(t)
    \/ GetInsert(t)
    \/ CallPut(t)
    \/ PutLock(t)
    \/ PutInsert(t)
    \/ CallClear(t)
    \/ ClearLock(t)
    \/ ClearStore(t)

Spec == Init /\ [][Next]_vars

\* ------------------------------------------------------------- fairness
\* The step of caller t that waits for the guard of MEMORY_STORE.
LockStep(t) ==
  GetLock(t) \/ GetInsertLock(t) \/ PutLock(t) \/ ClearLock(t)

\* The steps of a call of t that wait for nothing but the scheduler, and the
\* arrival of the answer to its request: reqwest ends the request with a
\* response, an error or, after 60 s, the timeout.
RunStep(t) ==
  \/ GetLookup(t) \/ GetRequest(t) \/ GetResponse(t) \/ GetInsert(t)
  \/ PutInsert(t) \/ ClearStore(t)

\* A fair scheduler: a thread that can run does run, and a thread that waits
\* for the guard gets it if the guard is free again and again.  Nothing
\* obliges a caller to start a call.
Fairness ==
  \A t \in Callers : WF_vars(RunStep(t)) /\ SF_vars(LockStep(t))

FairSpec == Spec /\ Fairness

\* --------------------------------------------------------------- claims
\* The canonical string of the cid of t's call (the call is past its entry).
KeyOf(t) == CHOOSE k \in key[t] : TRUE

\* Caller t leaves position p in this step.
Leaves(t, p) == pc[t] = p /\ pc'[t] # p

\* Every entry of the map other than the one under k is as it was.
OthersUnchanged(k) ==
  /\ DOMAIN MEMORY_STORE' \ {k} = DOMAIN MEMORY_STORE \ {k}
  /\ \A x \in DOMAIN MEMORY_STORE \ {k} : MEMORY_STORE'[x] = MEMORY_STORE[x]

\* C1 (as stated): without clear(), once a get_block(cid) has fetched b into
\* the map and returned it, the lookup of every get_block(cid) called later,
\* by any caller, hits and returns exactly b, and no request is sent.
C1_CachePrecedence ==
  [][\A t \in Callers :
       (Leaves(t, "g_look") /\ prior[t] # {}) =>
         /\ pc'[t] = "done"
         /\ result'[t].tag = "Ok"
         /\ result'[t].val \in prior[t]
         /\ netcalls' = netcalls]_vars

\* C2 (as stated): a get_block or put_block call that has ended has returned
\* a result value to its caller, Ok or an error; a call with a malformed
\* CID returns the error InvalidIdentifier.
C2_InvalidIdentifierReturned ==
  \A t \in Callers :
    (pc[t] \in Outside /\ op[t] \in {"get", "put"}) =>
      /\ pc[t] = "done"
      /\ result[t].tag \in {"Ok", "Err"}

\* C3 (as stated): the body of a response with a non-2xx status is neither
\* inserted into the map nor returned: only a 2xx response takes get_block
\* to the insert and the Ok(data) that follows it.
C3_Non2xxIsFailure ==
  [][\A t \in Callers :
       Leaves(t, "g_insert") =>
         (status[t] \in 200..299 \/ (FetchFailed(result'[t])
                                       /\ MEMORY_STORE' = MEMORY_STORE))]_vars

\* C4 (as stated): an entry of the map is never replaced by different
\* bytes: while the key stays in the map, its bytes stay what they were.
C4_BlockImmutability ==
  [][\A k \in DOMAIN MEMORY_STORE :
       k \in DOMAIN MEMORY_STORE' => MEMORY_STORE'[k] = MEMORY_STORE[k]]_vars

\* C5: when get_block has missed and its fetch has given the body data,
\* the step that ends the call returns Ok(data) and leaves data in the map
\* under the canonical string of cid, every other entry being as it was.
C5_MissFetchStores ==
  [][\A t \in Callers :
       Leaves(t, "g_insert") =>
         /\ pc'[t] = "done"
         /\ lookup[t] = "miss"
         /\ result'[t] = Ok(data[t])
         /\ MapGet(MEMORY_STORE', KeyOf(t)) = {data[t]}
         /\ OthersUnchanged(KeyOf(t))]_vars

\* A get_block that missed has returned the block it fetched; the block is
\* in the map, written by this caller's fetch, next to another entry.
C5_Witness ==
  \E t \in Callers, k \in DOMAIN MEMORY_STORE :
    /\ pc[t] = "done" /\ op[t] = "get" /\ lookup[t] = "miss"
    /\ result[t] = Ok(MEMORY_STORE[k])
    /\ lastWrite[k].by = "fetch" /\ lastWrite[k].store = store[t]
    /\ DOMAIN MEMORY_STORE # {k}

\* C6: a get_block whose fetch fails (client not built, transport error,
\* timeout, unreadable body) ends with that error, and no step of a
\* get_block other than the insert of a fetched body changes the map: the
\* call that fails leaves every entry as it found it.
C6_FetchFailureLeavesCache ==
  [][\A t \in Callers :
       /\ (pc[t] \in {"g_request", "g_wait"} /\ pc'[t] = "done") =>
            /\ FetchFailed(result'[t])
            /\ MEMORY_STORE' = MEMORY_STORE
       /\ (pc[t] \in GetPcs \ {"g_insert"} /\ pc'[t] # pc[t]) =>
            MEMORY_STORE' = MEMORY_STORE
       /\ (pc[t] \in Outside /\ pc'[t] = "g_lock") =>
            MEMORY_STORE' = MEMORY_STORE]_vars

\* A get_block has sent its request, got nothing within the timeout and
\* returned the error, while the map holds an entry.
C6_Witness ==
  \E t \in Callers :
    /\ pc[t] = "done" /\ op[t] = "get" /\ lookup[t] = "miss"
    /\ fetches[t] = 1
    /\ result[t] = Err("timeout")
    /\ MEMORY_STORE # EmptyMap

\* C7: put_block with a valid cid always returns Ok and leaves its bytes
\* under the key, whatever was there; and while that put is the latest write
\* of the key (no clear since), the lookup of a get_block for the key hits
\* and returns exactly those bytes.
C7_WriteThenRead ==
  [][\A t \in Callers :
       /\ pc[t] \in PutPcs => pc'[t] \in PutPcs \cup {"done"}
       /\ Leaves(t, "p_insert") =>
            /\ pc'[t] = "done"
            /\ result'[t] = Ok(<<>>)
            /\ MapGet(MEMORY_STORE', KeyOf(t)) = {bytes[t]}
       /\ (/\ Leaves(t, "g_look")
           /\ KeyOf(t) \in DOMAIN lastWrite
           /\ lastWrite[KeyOf(t)].by = "put") =>
            /\ pc'[t] = "done"
            /\ result'[t] = Ok(lastWrite[KeyOf(t)].val)]_vars

\* A get_block has hit and returned the bytes of the put_block that was the
\* latest write of the only key of the map.
C7_Witness ==
  \E t \in Callers, k \in DOMAIN lastWrite :
    /\ pc[t] = "done" /\ op[t] = "get" /\ lookup[t] = "hit"
    /\ DOMAIN MEMORY_STORE = {k}
    /\ lastWrite[k].by = "put"
    /\ result[t] = Ok(lastWrite[k].val)

\* C8: no step of put_block sends a request, and its insert changes the
\* entry under its key only.
C8_PutIsLocal ==
  [][\A t \in Callers :
       /\ (pc[t] \in Outside /\ pc'[t] = "p_lock") =>
            (netcalls' = netcalls /\ MEMORY_STORE' = MEMORY_STORE)
       /\ Leaves(t, "p_lock") =>
            (netcalls' = netcalls /\ MEMORY_STORE' = MEMORY_STORE)
       /\ Leaves(t, "p_insert") =>
            /\ netcalls' = netcalls
            /\ fetches'[t] = 0
            /\ MEMORY_STORE' = MapInsert(MEMORY_STORE, KeyOf(t), bytes[t])
            /\ OthersUnchanged(KeyOf(t))]_vars

\* A put_block has returned in a process that has sent a request before and
\* holds another entry.
C8_Witness ==
  \E t \in Callers, k \in DOMAIN lastWrite :
    /\ pc[t] = "done" /\ op[t] = "put" /\ fetches[t] = 0
    /\ lastWrite[k].by = "put" /\ lastWrite[k].store = store[t]
    /\ DOMAIN MEMORY_STORE # {k}
    /\ netcalls = 1

\* C9, first part (clear() empties the map and the lookup of a key that
\* was in it, and has not been written since, misses) with what a
\* get_block does after such a miss.
ClearEmpties ==
  \A t \in Callers :
    /\ Leaves(t, "c_clear") =>
         \A k \in DOMAIN MEMORY_STORE : MapGet(MEMORY_STORE', k) = {}
    /\ (Leaves(t, "g_look") /\ KeyOf(t) \in cleared) =>
         (pc'[t] = "g_request" /\ lookup'[t] = "miss" /\ fetches'[t] = 0)
    /\ (pc[t] \in {"g_wait", "g_ilock", "g_insert"} /\ pc'[t] # pc[t]) =>
         (fetches'[t] = fetches[t] /\ netcalls' = netcalls)

\* C9 (as stated): ... and the get_block that missed sends exactly one
\* request.
C9_ExactlyOneFetch ==
  [][/\ ClearEmpties
     /\ \A t \in Callers :
          (Leaves(t, "g_request") /\ KeyOf(t) \in cleared) =>
            (fetches'[t] = 1 /\ netcalls' = netcalls + 1)]_vars

\* C9 (amended): ... and the get_block that missed sends exactly one
\* request, unless the HTTP client cannot be built: then it sends none and
\* returns that error.
C9_ClearIsolation ==
  [][/\ ClearEmpties
     /\ \A t \in Callers :
          (Leaves(t, "g_request") /\ KeyOf(t) \in cleared) =>
            \/ /\ pc'[t] = "g_wait"
               /\ fetches'[t] = 1 /\ netcalls' = netcalls + 1
            \/ /\ pc'[t] = "done" /\ result'[t] = Err("build")
               /\ fetches'[t] = 0 /\ netcalls' = netcalls]_vars

\* A get_block for a key that clear() removed, and nobody wrote since, has
\* missed and its one request is on its way.
C9_Witness ==
  \E t \in Callers :
    /\ pc[t] = "g_wait"
    /\ KeyOf(t) \in cleared
    /\ fetches[t] = 1

\* C10: the lookup of a get_block finds the entry that the latest write of
\* the key left, also when that write went through another instance (other
\* gateway, other codec): it returns those bytes and sends no request.
C10_SharedCache ==
  [][\A t \in Callers :
       (/\ Leaves(t, "g_look")
        /\ KeyOf(t) \in DOMAIN lastWrite
        /\ lastWrite[KeyOf(t)].store # store[t]) =>
         /\ pc'[t] = "done"
         /\ result'[t] = Ok(lastWrite[KeyOf(t)].val)
         /\ fetches'[t] = 0
         /\ netcalls' = netcalls]_vars

\* A get_block through one instance has hit and returned the block that a
\* get_block through the other instance had fetched.
C10_Witness ==
  \E t \in Callers, k \in DOMAIN lastWrite :
    /\ pc[t] = "done" /\ op[t] = "get" /\ lookup[t] = "hit"
    /\ DOMAIN MEMORY_STORE = {k}
    /\ lastWrite[k].by = "fetch"
    /\ lastWrite[k].store # store[t]
    /\ result[t] = Ok(lastWrite[k].val)

\* What C11 says of every get_block but the number of requests after a miss:
\* no request is sent before the lookup has missed, none after a hit, and
\* never more than one.
AtMostOneRequest ==
  \A t \in Callers :
    /\ fetches[t] <= 1
    /\ pc[t] \in {"g_lock", "g_look", "g_request"} => fetches[t] = 0
    /\ pc[t] \in {"g_wait", "g_ilock", "g_insert"} =>
         (fetches[t] = 1 /\ lookup[t] = "miss")
    /\ (pc[t] = "done" /\ lookup[t] = "hit") => fetches[t] = 0
    /\ op[t] \in {"put", "clear"} => fetches[t] = 0

\* C11 (as stated): a get_block sends at most one request: exactly one when
\* its lookup has missed, none when it has hit.
C11_OneRequestPerMiss ==
  /\ AtMostOneRequest
  /\ \A t \in Callers :
       (pc[t] = "done" /\ lookup[t] = "miss") => fetches[t] = 1

\* C11 (amended): ... exactly one when its lookup has missed, unless the HTTP
\* client could not be built: then none is sent and the call returns that
\* error; a call that sent its request and failed has sent one, not more.
C11_SingleAttempt ==
  /\ AtMostOneRequest
  /\ \A t \in Callers :
       (pc[t] = "done" /\ lookup[t] = "miss") =>
         /\ fetches[t] = 0 <=> result[t] = Err("build")
         /\ FetchFailed(result[t]) /\ result[t] # Err("build") =>
              fetches[t] = 1

\* A get_block has missed, sent one request, got a transport error and
\* returned it, after one request of an earlier call.
C11_Witness ==
  \E t \in Callers :
    /\ pc[t] = "done" /\ op[t] = "get" /\ lookup[t] = "miss"
    /\ fetches[t] = 1
    /\ result[t] = Err("transport")
    /\ netcalls = 2

\* C12 (as stated): when two get_block calls for one key overlap and both
\* miss, each sends its own request, both complete, and both write the same
\* bytes.  A get_block that inserts while the latest write of its key is
\* another call's fetch has missed before that fetch was inserted (it would
\* have hit otherwise, and a clear() would have erased the record): the two
\* calls overlapped and both missed.  Then the call has sent its own
\* request, it returns Ok, and what it inserts and returns is what the other
\* call inserted and returned.
C12_ConcurrentMissesAgree ==
  [][\A t \in Callers :
       (/\ Leaves(t, "g_insert")
        /\ KeyOf(t) \in DOMAIN lastWrite
        /\ lastWrite[KeyOf(t)].by = "fetch") =>
         /\ fetches[t] = 1
         /\ pc'[t] = "done"
         /\ result'[t].tag = "Ok"
         /\ result'[t].val = lastWrite[KeyOf(t)].val
         /\ MEMORY_STORE'[KeyOf(t)] = lastWrite[KeyOf(t)].val]_vars

\* C13: the guard of MEMORY_STORE is held only inside a lookup, an insert or
\* a clear: a caller that is building its request, waiting for the response
\* or waiting to insert does not hold it, so that whoever holds it while a
\* request is in flight is another caller.
C13_NoLockAcrossFetch ==
  \A t \in Callers :
    /\ pc[t] \in {"g_request", "g_wait", "g_ilock"} => t \notin lock
    /\ t \in lock => pc[t] \in {"g_look", "g_insert", "p_insert", "c_clear"}

\* While the request of one caller is in flight, the other caller is inside
\* the insert of its put_block, holding the guard.
C13_Witness ==
  \E t, u \in Callers :
    /\ pc[t] = "g_wait" /\ fetches[t] = 1
    /\ pc[u] = "p_insert"
    /\ lock = {u}

\* The callers that are inside a lookup, an insert or a clear.
InCritical ==
  {t \in Callers : pc[t] \in {"g_look", "g_insert", "p_insert", "c_clear"}}

\* C14: at most one caller is inside a lookup, an insert or a clear, and it
\* is the holder of the guard; the map holds, under each key, the whole
\* bytes of the latest insert of the key since the last clear, and no entry
\* for a key that has had none: this is what a lookup finds.
C14_AtomicCacheOps ==
  /\ Cardinality(InCritical) <= 1
  /\ lock = InCritical
  /\ DOMAIN MEMORY_STORE = DOMAIN lastWrite
  /\ \A k \in DOMAIN MEMORY_STORE : MEMORY_STORE[k] = lastWrite[k].val

\* One caller is inside its lookup, of a key that holds the bytes that a
\* put_block inserted, while the other waits for the guard to clear the map.
C14_Witness ==
  \E t, u \in Callers :
    /\ pc[t] = "g_look" /\ lock = {t}
    /\ KeyOf(t) \in DOMAIN MEMORY_STORE
    /\ lastWrite[KeyOf(t)].by = "put"
    /\ pc[u] = "c_lock"

\* C15: under a fair scheduler and a request that always ends, every
\* get_block and every put_block that is under way returns a result, Ok or
\* an error: it waits for ever neither for the guard nor for the response.
\* (A call whose cid does not parse is never under way: it ends at its entry
\* by the panic of cid_to_string and waits for nothing.)
C15_CallsReturn ==
  \A t \in Callers :
    (pc[t] \in GetPcs \cup PutPcs) ~>
      (pc[t] = "done" /\ result[t].tag \in {"Ok", "Err"})

\* A get_block waits for the guard to insert what it fetched while the other
\* caller, inside the insert of its put_block, holds it.
C15_Witness ==
  \E t, u \in Callers :
    /\ pc[t] = "g_ilock" /\ fetches[t] = 1
    /\ pc[u] = "p_insert"
    /\ lock = {u}

\* C16: a key that is in the map stays in it through every step of a
\* get_block and of a put_block; the only step that removes keys is the
\* clear() of clear_memory_store, and it removes them all.
C16_NoEviction ==
  [][\/ DOMAIN MEMORY_STORE \subseteq DOMAIN MEMORY_STORE'
     \/ /\ \E t \in Callers : Leaves(t, "c_clear")
        /\ DOMAIN MEMORY_STORE' = {}]_vars

\* The map holds two keys, one written by a fetch and one by a put_block,
\* and every call has ended.
C16_Witness ==
  /\ Cardinality(DOMAIN MEMORY_STORE) = 2
  /\ \E j, k \in DOMAIN lastWrite :
       lastWrite[j].by = "fetch" /\ lastWrite[k].by = "put"
  /\ \A t \in Callers : pc[t] \in Outside

\* C17: the lookup of a get_block whose key is in the map hits: the call
\* returns Ok with the bytes stored under the key, as they are, and its
\* steps (entry, taking the guard, lookup) leave the map and the number of
\* requests sent as they were.
C17_HitIsReadOnly ==
  [][\A t \in Callers :
       /\ (Leaves(t, "g_look") /\ KeyOf(t) \in DOMAIN MEMORY_STORE) =>
            /\ pc'[t] = "done"
            /\ lookup'[t] = "hit"
            /\ result'[t] = Ok(MEMORY_STORE[KeyOf(t)])
            /\ fetches'[t] = 0
       /\ (Leaves(t, "g_look") /\ pc'[t] = "done") =>
            /\ KeyOf(t) \in DOMAIN MEMORY_STORE
            /\ MEMORY_STORE' = MEMORY_STORE
            /\ netcalls' = netcalls
       /\ (pc'[t] \in {"g_lock", "g_look"} /\ pc'[t] # pc[t]) =>
            (MEMORY_STORE' = MEMORY_STORE /\ netcalls' = netcalls)]_vars

\* A get_block has hit and returned the bytes of the entry, which is still
\* in the map, in a behaviour where one request has been sent before.
C17_Witness ==
  \E t \in Callers, k \in DOMAIN MEMORY_STORE :
    /\ pc[t] = "done" /\ op[t] = "get" /\ lookup[t] = "hit"
    /\ fetches[t] = 0
    /\ result[t] = Ok(MEMORY_STORE[k])
    /\ netcalls = 1

\* C18: cid_string is computed before the guard is asked for: the step that
\* enters a call, where a malformed cid panics, touches neither the guard
\* nor the map nor the network; the caller that has panicked holds no guard
\* and the Mutex is never poisoned, so that no call of any caller panics
\* where it takes the guard: a panic happens at the entry of a call only.
C18_PanicBeforeLock ==
  [][/\ ~poisoned'
     /\ ncalls' # ncalls =>
          /\ lock' = lock
          /\ MEMORY_STORE' = MEMORY_STORE
          /\ netcalls' = netcalls
     /\ \A t \in Callers :
          /\ pc'[t] = "panicked" => (t \notin lock' /\ pc[t] \in Outside)
          /\ pc'[t] \in {"g_lock", "p_lock"} =>
               (key'[t] # {} /\ cid_string'[t] = KeyOf(t)')]_vars

\* One caller has panicked on a malformed cid; the other is inside the
\* insert of its get_block, holding the guard, and the map has an entry.
C18_Witness ==
  \E t, u \in Callers :
    /\ pc[t] = "panicked" /\ op[t] = "put"
    /\ pc[u] = "g_insert" /\ lock = {u}
    /\ MEMORY_STORE # EmptyMap

====
